---- MODULE Spec2Model ----
(***************************************************************************)
(* Renewal distributor (src/app.py): a table of renewal records            *)
(* (Clinikk ID, Amount, Status) is validated, the amounts of every status  *)
(* are partitioned over n persons by GreedyFriendsAlgorithm, the partition *)
(* is flattened into result_df, AssigningClinikkIds gives every row the id *)
(* of an unused input record, and a (Person, Status) summary is computed.  *)
(*                                                                         *)
(* An Amount cell is a non-negative integer, NaN (a blank cell, which      *)
(* pandas reads as float nan) or Text (a cell holding a non-numeric        *)
(* string).  NaN and Text are encoded as the negative integers -1 and -2   *)
(* so that one sequence can hold all three kinds; the arithmetic and the   *)
(* comparisons of the program go through Add, Lt and Eq, which give NaN    *)
(* its IEEE meaning.                                                       *)
(***************************************************************************)
EXTENDS Integers, Sequences, FiniteSets, TLC

\* ------------------------------------------------------------- bounds
\* Tables of the pipeline: at most MaxRecords rows, numeric amounts
\* 1..MaxAmount, 1..MaxN persons.
MaxRecords == 3
MaxN == 2
MaxAmount == 2
\* Direct calls of GreedyFriendsAlgorithm: lists of at most GMaxLen amounts in
\* 0..GMaxAmount, 1..GMaxK buckets.
GMaxLen == 4
GMaxK == 3
GMaxAmount == 3

\* ------------------------------------------------------------- values
NaN == 0 - 1
Text == 0 - 2
None == "None"

IsNumber(a) == a >= 0

\* float/int addition: nan is absorbing
Add(a, b) == IF a = NaN \/ b = NaN THEN NaN ELSE a + b
\* a < b of Python floats: any comparison with nan is False
Lt(a, b) == a # NaN /\ b # NaN /\ a < b
\* a == b of Python / pandas: nan is equal to nothing
Eq(a, b) == a # NaN /\ b # NaN /\ a = b

required_cols == {"Clinikk ID", "Amount", "Status"}
allowed_statuses == {"Active", "Inactive", "Affiliate"}
statuses == <<"Active", "Inactive", "Affiliate">>

IdNames == <<"C0001", "C0002", "C0003", "C0004", "C0005">>
PersonNames == <<"Person1", "Person2", "Person3", "Person4", "Person5">>
persons(k) == [i \in 1..k |-> PersonNames[i]]

\* ------------------------------------------------------------- sequences
Range(s) == {s[i] : i \in DOMAIN s}

Reverse(s) == [i \in 1..Len(s) |-> s[Len(s) + 1 - i]]

RECURSIVE SumSeq(_)
SumSeq(s) == IF s = <<>> THEN 0 ELSE Add(Head(s), SumSeq(Tail(s)))

RECURSIVE Flatten(_)
Flatten(ss) == IF ss = <<>> THEN <<>> ELSE Head(ss) \o Flatten(Tail(ss))

\* ------------------------------------------------------------- sorted()
\* sorted(amounts, reverse=True) as CPython computes it for a list of fewer
\* than 64 items: the list is reversed, sorted ascending by the natural run
\* at its head followed by binary insertion, and reversed again.  Only "<"
\* is used, so with nan in the list the result depends on the positions.

\* length of the run at the head of s (count_run)
RECURSIVE RunFrom(_, _, _)
RunFrom(s, i, desc) ==
    IF i > Len(s) THEN Len(s)
    ELSE IF desc = Lt(s[i], s[i - 1]) THEN RunFrom(s, i + 1, desc)
    ELSE i - 1

RunDescending(s) == Len(s) >= 2 /\ Lt(s[2], s[1])

RunLength(s) == IF Len(s) < 2 THEN Len(s) ELSE RunFrom(s, 3, RunDescending(s))

\* the place of pivot among s[l..r-1] (the bisection of binarysort)
RECURSIVE BinaryPlace(_, _, _, _)
BinaryPlace(s, pivot, l, r) ==
    IF l >= r THEN l
    ELSE LET p == l + ((r - l) \div 2)
         IN  IF Lt(pivot, s[p]) THEN BinaryPlace(s, pivot, l, p)
             ELSE BinaryPlace(s, pivot, p + 1, r)

InsertAt(s, l, x) == SubSeq(s, 1, l - 1) \o <<x>> \o SubSeq(s, l, Len(s))

\* binarysort: s[1..start-1] is sorted, insert s[start..] one by one
RECURSIVE BinarySort(_, _)
BinarySort(s, start) ==
    IF start > Len(s) THEN s
    ELSE LET l == BinaryPlace(s, s[start], 1, start)
             t == InsertAt(SubSeq(s, 1, start - 1), l, s[start])
                    \o SubSeq(s, start + 1, Len(s))
         IN  BinarySort(t, start + 1)

SortAscending(s) ==
    LET run == RunLength(s)
        t == IF RunDescending(s)
             THEN Reverse(SubSeq(s, 1, run)) \o SubSeq(s, run + 1, Len(s))
             ELSE s
    IN  BinarySort(t, run + 1)

SortedReverse(s) == Reverse(SortAscending(Reverse(s)))

\* ------------------------------------------------------------- state
VARIABLES
    columns,            \* data.columns
    data,               \* the uploaded table, a sequence of rows
    n,                  \* number of persons
    pc,                 \* position of the script
    error,              \* message of st.error, or the exception raised
    si,                 \* index into statuses of the loop of lines 162-164
    arg,                \* GreedyFriendsAlgorithm: the list passed in
    k,                  \* GreedyFriendsAlgorithm: number of buckets
    amounts,            \* GreedyFriendsAlgorithm: the sorted list
    pos,                \* GreedyFriendsAlgorithm: index of the next amt
    totals,             \* GreedyFriendsAlgorithm: running totals
    assignments,        \* GreedyFriendsAlgorithm: bucket lists
    status_assignments, \* status -> bucket lists
    all_frames,         \* the frames of lines 169-182
    result_df,          \* the assignment table
    ids,                \* values returned so far by the apply of line 187
    used_ids,           \* ids already handed out
    summary             \* the summary table

vars == <<columns, data, n, pc, error, si, arg, k, amounts, pos, totals,
          assignments, status_assignments, all_frames, result_df, ids,
          used_ids, summary>>

greedyVars == <<arg, k, amounts, pos, totals, assignments>>
inputVars == <<columns, data, n>>
outputVars == <<all_frames, result_df, ids, used_ids, summary>>

\* ------------------------------------------------------------- inputs
AmountCells == (1..MaxAmount) \cup {NaN, Text}

Row(id, amount, status) == [ClinikkID |-> id, Amount |-> amount, Status |-> status]

\* the table whose row i has the id numbered id[i], amount am[i], status st[i]
Table(len, id, am, st) == [i \in 1..len |-> Row(IdNames[id[i]], am[i], st[i])]

\* a table with pairwise distinct ids and allowed statuses (row i carries the
\* i-th id); its amounts are numbers, blank cells or text
ValidUpload ==
    \E len \in 0..MaxRecords :
        \E am \in [1..len -> AmountCells], st \in [1..len -> allowed_statuses] :
            /\ data = Table(len, [i \in 1..len |-> i], am, st)
            /\ columns = required_cols

\* a numeric table in which row j repeats the id of row i
OtherStatuses == {"active", "Expired"}

DuplicateIdUpload ==
    \E len \in 2..MaxRecords :
        \E am \in [1..len -> 1..MaxAmount], st \in [1..len -> allowed_statuses] :
            \E i, j \in 1..len :
                /\ i < j
                /\ data = Table(len, [q \in 1..len |-> IF q = j THEN i ELSE q], am, st)
                /\ columns = required_cols

\* a numeric table in which row i has a status outside the enumeration
InvalidStatusUpload ==
    \E len \in 1..MaxRecords :
        \E am \in [1..len -> 1..MaxAmount], st \in [1..len -> allowed_statuses] :
            \E i \in 1..len, s \in OtherStatuses :
                /\ data = Table(len, [q \in 1..len |-> q], am,
                                [st EXCEPT ![i] = s])
                /\ columns = required_cols

\* a numeric table that lacks one of the required columns
MissingColumnUpload ==
    \E len \in 0..MaxRecords :
        \E am \in [1..len -> 1..MaxAmount], st \in [1..len -> allowed_statuses] :
            \E c \in required_cols :
                /\ data = Table(len, [q \in 1..len |-> q], am, st)
                /\ columns = required_cols \ {c}

\* ------------------------------------------------------------- Init
NoCall ==
    /\ arg = <<>>
    /\ k = 0
    /\ amounts = <<>>
    /\ pos = 0
    /\ totals = <<>>
    /\ assignments = <<>>

NoOutput ==
    /\ all_frames = <<>>
    /\ result_df = <<>>
    /\ ids = <<>>
    /\ used_ids = <<>>
    /\ summary = <<>>

\* the script has read the uploaded file (lines 104-127)
Init ==
    /\ \/ ValidUpload
       \/ DuplicateIdUpload
       \/ InvalidStatusUpload
       \/ MissingColumnUpload
    /\ n \in 1..MaxN
    /\ pc = "validate_columns"
    /\ error = ""
    /\ si = 0
    /\ status_assignments = <<>>
    /\ NoCall
    /\ NoOutput

\* ------------------------------------------------------------- validations
Stop(msg) ==
    /\ pc' = "stopped"
    /\ error' = msg

\* data["Clinikk ID"].duplicated().any()
HasDuplicatedId(d) ==
    \E i, j \in DOMAIN d : i < j /\ d[i].ClinikkID = d[j].ClinikkID

\* variant of InvalidStatuses: statuses are compared without regard to case
InvalidStatusesIgnoringCase(d) ==
    {d[i].Status : i \in DOMAIN d} \ (allowed_statuses \cup {"active"})

\* set(data["Status"].unique()) - allowed_statuses
InvalidStatuses(d) == {d[i].Status : i \in DOMAIN d} \ allowed_statuses

ValidateColumns ==
    /\ pc = "validate_columns"
    /\ IF ~(required_cols \subseteq columns)
       THEN Stop("Missing required columns in input file.")
       ELSE pc' = "validate_statuses" /\ error' = error
    /\ UNCHANGED <<inputVars, si, greedyVars, status_assignments, outputVars>>

ValidateStatuses ==
    /\ pc = "validate_statuses"
    /\ IF InvalidStatuses(data) # {}
       THEN Stop("Invalid Status values found")
       ELSE pc' = "validate_ids" /\ error' = error
    /\ UNCHANGED <<inputVars, si, greedyVars, status_assignments, outputVars>>

ValidateIds ==
    /\ pc = "validate_ids"
    /\ IF HasDuplicatedId(data)
       THEN Stop("Duplicate Clinikk IDs found in input.") /\ si' = si
       ELSE pc' = "greedy_call" /\ error' = error /\ si' = 1
    /\ UNCHANGED <<inputVars, greedyVars, status_assignments, outputVars>>

\* ------------------------------------------------------------- GreedyFriendsAlgorithm
\* min(totals): the first item no later item is "<" than
RECURSIVE MinFrom(_, _, _)
MinFrom(t, j, cur) ==
    IF j > Len(t) THEN cur
    ELSE MinFrom(t, j + 1, IF Lt(t[j], cur) THEN t[j] ELSE cur)

Min(t) == MinFrom(t, 2, t[1])

\* variants of MinIndex: always the first bucket; the last of the buckets
\* holding the minimum
FirstIndex(t) == 1

LastMinIndex(t) ==
    LET m == Min(t)
    IN  CHOOSE j \in 1..Len(t) : t[j] = m /\ \A i \in (j + 1)..Len(t) : t[i] # m

\* totals.index(min(totals)): the first position holding the minimum.  min
\* returns nan only when totals[0] is nan, and index finds that very object
\* at position 0, so the first position of the encoded value is the answer.
MinIndex(t) ==
    LET m == Min(t)
    IN  CHOOSE j \in 1..Len(t) : t[j] = m /\ \A i \in 1..(j - 1) : t[i] # m

\* totals[idx] += amt
AddToTotal(t, idx, amt) == [t EXCEPT ![idx] = Add(t[idx], amt)]

\* variant of AppendToBucket: the bucket keeps only the latest amount
OverwriteBucket(a, idx, amt) == [a EXCEPT ![idx] = <<amt>>]

\* assignments[idx].append(amt)
AppendToBucket(a, idx, amt) == [a EXCEPT ![idx] = Append(a[idx], amt)]

\* data[data["Status"] == status]["Amount"].tolist()
AmountsOfStatus(d, status) ==
    LET rows == SelectSeq(d, LAMBDA r : r.Status = status)
    IN  [i \in 1..Len(rows) |-> rows[i].Amount]

\* line 164: the call for statuses[si]
GreedyCall ==
    /\ pc = "greedy_call"
    /\ arg' = AmountsOfStatus(data, statuses[si])
    /\ k' = n
    /\ pc' = "greedy_entry"
    /\ UNCHANGED <<inputVars, error, si, amounts, pos, totals, assignments,
                   status_assignments, outputVars>>

\* lines 33-35.  A Text amount makes the call raise TypeError: sorted compares
\* it with a number, or, when it is alone or among strings, the first
\* totals[idx] += amt adds it to the int 0.
GreedyEntry ==
    /\ pc = "greedy_entry"
    /\ IF Text \in Range(arg)
       THEN /\ pc' = "crashed"
            /\ error' = "TypeError"
            /\ UNCHANGED <<amounts, pos, totals, assignments>>
       ELSE /\ amounts' = SortedReverse(arg)
            /\ totals' = [i \in 1..k |-> 0]
            /\ assignments' = [i \in 1..k |-> <<>>]
            /\ pos' = 1
            /\ pc' = "greedy_loop"
            /\ error' = error
    /\ UNCHANGED <<inputVars, si, arg, k, status_assignments, outputVars>>

\* lines 37-40: one iteration of the loop
GreedyStep ==
    /\ pc = "greedy_loop"
    /\ pos <= Len(amounts)
    /\ LET amt == amounts[pos]
           idx == MinIndex(totals)
       IN  /\ totals' = AddToTotal(totals, idx, amt)
           /\ assignments' = AppendToBucket(assignments, idx, amt)
    /\ pos' = pos + 1
    /\ UNCHANGED <<inputVars, pc, error, si, arg, k, amounts,
                   status_assignments, outputVars>>

\* line 42 and the assignment of line 164
GreedyReturn ==
    /\ pc = "greedy_loop"
    /\ pos > Len(amounts)
    /\ si >= 1
    /\ status_assignments' = (statuses[si] :> assignments) @@ status_assignments
    /\ IF si < Len(statuses)
       THEN si' = si + 1 /\ pc' = "greedy_call"
       ELSE si' = si /\ pc' = "build"
    /\ UNCHANGED <<inputVars, error, greedyVars, outputVars>>

\* ------------------------------------------------------------- final result
\* lines 176-181: the frame of person i and one status
Frame(assigned_amounts, status, i) ==
    [j \in 1..Len(assigned_amounts) |->
        [AssignedAmount |-> assigned_amounts[j],
         Status |-> status,
         Person |-> persons(n)[i]]]

\* lines 171-182: persons outermost, statuses inside, empty lists skipped
Frames(sa) ==
    LET cell(q) == Frame(sa[statuses[((q - 1) % Len(statuses)) + 1]]
                           [((q - 1) \div Len(statuses)) + 1],
                         statuses[((q - 1) % Len(statuses)) + 1],
                         ((q - 1) \div Len(statuses)) + 1)
        all == [q \in 1..(n * Len(statuses)) |-> cell(q)]
    IN  SelectSeq(all, LAMBDA f : f # <<>>)

BuildFrames ==
    /\ pc = "build"
    /\ all_frames' = Frames(status_assignments)
    /\ pc' = "concat"
    /\ UNCHANGED <<inputVars, error, si, greedyVars, status_assignments,
                   result_df, ids, used_ids, summary>>

\* line 184: pd.concat raises ValueError on an empty list of frames
Concat ==
    /\ pc = "concat"
    /\ IF all_frames = <<>>
       THEN /\ pc' = "crashed"
            /\ error' = "ValueError"
            /\ result_df' = result_df
       ELSE /\ result_df' = Flatten(all_frames)
            /\ pc' = "assign_ids"
            /\ error' = error
    /\ UNCHANGED <<inputVars, si, greedyVars, status_assignments, all_frames,
                   ids, used_ids, summary>>

\* ------------------------------------------------------------- AssigningClinikkIds
\* variant of Match: the used ids are not excluded
MatchIgnoringUsed(row, used) ==
    SelectSeq(data, LAMBDA r : /\ Eq(r.Amount, row.AssignedAmount)
                               /\ r.Status = row.Status)

\* lines 51-55: the rows of data matching the row and not used yet
Match(row, used) ==
    SelectSeq(data, LAMBDA r : /\ Eq(r.Amount, row.AssignedAmount)
                               /\ r.Status = row.Status
                               /\ r.ClinikkID \notin Range(used))

\* variant of AssigningClinikkIds: the last matching record is taken
AssigningLastMatch(row, used) ==
    LET match == Match(row, used)
    IN  IF match # <<>> THEN match[Len(match)].ClinikkID ELSE None

\* lines 57-61: the value returned
AssigningClinikkIds(row, used) ==
    LET match == Match(row, used)
    IN  IF match # <<>> THEN match[1].ClinikkID ELSE None

\* line 187: apply calls the function once per row, in the order of the rows
AssignNextId ==
    /\ pc = "assign_ids"
    /\ Len(ids) < Len(result_df)
    /\ LET cid == AssigningClinikkIds(result_df[Len(ids) + 1], used_ids)
       IN  /\ ids' = Append(ids, cid)
           /\ used_ids' = IF cid # None THEN Append(used_ids, cid) ELSE used_ids
    /\ UNCHANGED <<inputVars, pc, error, si, greedyVars, status_assignments,
                   all_frames, result_df, summary>>

\* line 187: the values become the column "Clinikk ID"
SetIdColumn ==
    /\ pc = "assign_ids"
    /\ Len(ids) = Len(result_df)
    /\ result_df' = [j \in 1..Len(result_df) |->
                        [AssignedAmount |-> result_df[j].AssignedAmount,
                         Status |-> result_df[j].Status,
                         Person |-> result_df[j].Person,
                         ClinikkID |-> ids[j]]]
    /\ pc' = "summary"
    /\ UNCHANGED <<inputVars, error, si, greedyVars, status_assignments,
                   all_frames, ids, used_ids, summary>>

\* ------------------------------------------------------------- summary
\* groupby sorts the group keys: Person, then Status, as strings
SortedStatuses == <<"Active", "Affiliate", "Inactive">>

GroupKeys ==
    [q \in 1..(n * Len(SortedStatuses)) |->
        <<persons(n)[((q - 1) \div Len(SortedStatuses)) + 1],
          SortedStatuses[((q - 1) % Len(SortedStatuses)) + 1]>>]

Group(df, key) == SelectSeq(df, LAMBDA r : r.Person = key[1] /\ r.Status = key[2])

\* "count" counts the values that are not nan, "sum" skips nan
Aggregate(df, key) ==
    LET present == SelectSeq(Group(df, key), LAMBDA r : r.AssignedAmount # NaN)
    IN  [Person |-> key[1],
         Status |-> key[2],
         Count |-> Len(present),
         TotalAmount |-> SumSeq([j \in 1..Len(present) |-> present[j].AssignedAmount])]

\* lines 196-204: one row per group that has rows
Summary(df) ==
    LET keys == SelectSeq(GroupKeys, LAMBDA key : Group(df, key) # <<>>)
    IN  [q \in 1..Len(keys) |-> Aggregate(df, keys[q])]

\* lines 196-218: the summary is shown and the output offered for download
Summarize ==
    /\ pc = "summary"
    /\ summary' = Summary(result_df)
    /\ pc' = "done"
    /\ UNCHANGED <<inputVars, error, si, greedyVars, status_assignments,
                   all_frames, result_df, ids, used_ids>>

\* ------------------------------------------------------------- the script
Next ==
    \/ ValidateColumns
    \/ ValidateStatuses
    \/ ValidateIds
    \/ GreedyCall
    \/ GreedyEntry
    \/ GreedyStep
    \/ GreedyReturn
    \/ BuildFrames
    \/ Concat
    \/ AssignNextId
    \/ SetIdColumn
    \/ Summarize

Spec == Init /\ [][Next]_vars

\* ------------------------------------------------------------- direct calls
\* GreedyFriendsAlgorithm(amounts, k) called on its own with a list of
\* numbers: every list within the bounds, and the list of the input template
\* (line 11).
TemplateAmounts == <<5000, 3500, 4200>>

GreedyInput ==
    \/ \E len \in 0..GMaxLen : arg \in [1..len -> 0..GMaxAmount]
    \/ arg = TemplateAmounts

InitGreedy ==
    /\ columns = required_cols
    /\ data = <<>>
    /\ n = 1
    /\ pc = "greedy_entry"
    /\ error = ""
    /\ si = 0
    /\ status_assignments = <<>>
    /\ GreedyInput
    /\ k \in 1..GMaxK
    /\ amounts = <<>>
    /\ pos = 0
    /\ totals = <<>>
    /\ assignments = <<>>
    /\ NoOutput

\* line 42 of a direct call
GreedyDone ==
    /\ pc = "greedy_loop"
    /\ pos > Len(amounts)
    /\ si = 0
    /\ pc' = "returned"
    /\ UNCHANGED <<inputVars, error, si, greedyVars, status_assignments, outputVars>>

NextGreedy ==
    \/ GreedyEntry
    \/ GreedyStep
    \/ GreedyDone

SpecGreedy == InitGreedy /\ [][NextGreedy]_vars

\* ------------------------------------------------------------- properties
\* helpers of the properties below
ValidationStates == {"validate_columns", "validate_statuses", "validate_ids"}
ValidationMessages == {"Missing required columns in input file.",
                       "Invalid Status values found",
                       "Duplicate Clinikk IDs found in input."}
TheStatuses == {"Active", "Inactive", "Affiliate"}

\* the rows composed so far: the frames before line 184, result_df after it
BuiltRows == IF result_df # <<>> THEN result_df ELSE Flatten(all_frames)
Built == pc \in {"concat", "assign_ids", "summary", "done"}
            \/ (pc = "crashed" /\ error = "ValueError")
Resolved == pc \in {"summary", "done"}

RowsWith(status, a) ==
    Cardinality({j \in DOMAIN BuiltRows :
                    BuiltRows[j].Status = status /\ BuiltRows[j].AssignedAmount = a})
RecordsWith(status, a) ==
    Cardinality({i \in DOMAIN data : data[i].Status = status /\ data[i].Amount = a})

AllNumeric == \A i \in DOMAIN data : IsNumber(data[i].Amount)

\* C1: once the frames are built, for every status every amount value occurs
\* in as many rows of that status as there are input records of that status
\* with that amount (a blank amount counts as a value of its own).
C1_MultisetPreserved ==
    Built =>
        \A status \in TheStatuses :
            \A a \in {data[i].Amount : i \in DOMAIN data}
                       \cup {BuiltRows[j].AssignedAmount : j \in DOMAIN BuiltRows} :
                RowsWith(status, a) = RecordsWith(status, a)

C1_Witness ==
    /\ pc = "done"
    /\ n = 2
    /\ Len(data) = 3
    /\ \A i \in DOMAIN data : data[i].Status = "Active"
    /\ data[1].Amount = 1 /\ data[2].Amount = 2 /\ data[3].Amount = 2

BoundOnce(s) == \A i, j \in DOMAIN s : (i < j /\ s[i] # None) => s[i] # s[j]
IdColumn == [j \in 1..Len(result_df) |-> result_df[j].ClinikkID]

\* C2: in every state no id has been returned for two rows, no id is in
\* used_ids twice, every id returned is an id of the input, and the rows that
\* carry an id are at most as many as the input records.
C2_NoReuse ==
    /\ BoundOnce(ids)
    /\ BoundOnce(used_ids)
    /\ \A j \in DOMAIN ids :
            ids[j] # None => \E i \in DOMAIN data : data[i].ClinikkID = ids[j]
    /\ Cardinality({j \in DOMAIN ids : ids[j] # None}) <= Len(data)
    /\ Resolved =>
        /\ BoundOnce(IdColumn)
        /\ Cardinality({j \in DOMAIN IdColumn : IdColumn[j] # None}) <= Len(data)

C2_Witness ==
    /\ pc = "assign_ids"
    /\ Len(ids) = 2
    /\ ids[1] # None /\ ids[2] # None
    /\ result_df[1].AssignedAmount = result_df[2].AssignedAmount
    /\ result_df[1].Status = result_df[2].Status

RowResolved(j) ==
    /\ result_df[j].ClinikkID # None
    /\ \E i \in DOMAIN data :
        /\ data[i].ClinikkID = result_df[j].ClinikkID
        /\ data[i].Amount = result_df[j].AssignedAmount
        /\ data[i].Status = result_df[j].Status

\* C3: when the ids have been assigned, every row carries the id of an input
\* record with the row's amount and status, and every input id is in exactly
\* one row.
C3_AllResolved ==
    Resolved =>
        /\ \A j \in DOMAIN result_df : RowResolved(j)
        /\ \A i \in DOMAIN data :
            Cardinality({j \in DOMAIN result_df :
                            result_df[j].ClinikkID = data[i].ClinikkID}) = 1

\* C3, for tables whose amounts are all numbers
AllResolvedWhenNumeric == AllNumeric => C3_AllResolved

BucketTotal(i) == SumSeq(assignments[i])
MaxAmountOf(s) ==
    IF s = <<>> THEN 0 ELSE CHOOSE a \in Range(s) : \A b \in Range(s) : b <= a

\* C4: when a call on a list of non-negative amounts returns, the largest
\* bucket total exceeds the smallest by at most the largest amount of the
\* list (0 for the empty list).
C4_BalanceBound ==
    pc = "returned" =>
        /\ Len(assignments) = k
        /\ \A i, j \in 1..k : BucketTotal(i) - BucketTotal(j) <= MaxAmountOf(arg)

C4_Witness ==
    /\ pc = "returned"
    /\ k >= 2
    /\ Len(arg) > k
    /\ MaxAmountOf(arg) > 0
    /\ \E i, j \in 1..k : BucketTotal(i) - BucketTotal(j) = MaxAmountOf(arg)

Rejectable ==
    \/ ~({"Clinikk ID", "Amount", "Status"} \subseteq columns)
    \/ \E i \in DOMAIN data : data[i].Status \notin TheStatuses
    \/ \E i, j \in DOMAIN data : i < j /\ data[i].ClinikkID = data[j].ClinikkID

\* C5: an upload with a repeated id, a status outside the enumeration or a
\* missing required column never leaves the validations except to stop with
\* a validation message; GreedyFriendsAlgorithm is not called and nothing is
\* assigned, summarised or marked used.
C5_RejectedBeforePartitioning ==
    Rejectable =>
        /\ pc \in ValidationStates \cup {"stopped"}
        /\ pc = "stopped" => error \in ValidationMessages
        /\ pc \in ValidationStates => ENABLED Next
        /\ NoCall
        /\ status_assignments = <<>>
        /\ NoOutput

C5_Witness ==
    /\ pc = "stopped"
    /\ error = "Invalid Status values found"
    /\ \E i \in DOMAIN data : data[i].Status = "active"
    /\ \A i \in DOMAIN data : data[i].Status \in TheStatuses \cup {"active"}

\* C6: an upload with a blank or non-numeric amount never gets past the
\* validations.
C6_AmountsValidated ==
    (\E i \in DOMAIN data : ~IsNumber(data[i].Amount)) =>
        /\ pc \in ValidationStates \cup {"stopped"}
        /\ pc = "stopped" => error \in ValidationMessages

Ended == pc \notin ValidationStates
            \cup {"greedy_call", "greedy_entry", "greedy_loop", "build",
                  "concat", "assign_ids", "summary"}

\* C7: a run ends either stopped with a validation message or done with an
\* assignment table of one row per record and a summary.  Stated for uploads
\* whose amounts are all numbers.
C7_TwoOutcomes ==
    (AllNumeric /\ Ended) =>
        \/ pc = "stopped" /\ error \in ValidationMessages
        \/ pc = "done" /\ Len(result_df) = Len(data)

PairRows(person, status) ==
    SelectSeq(result_df, LAMBDA r : r.Person = person /\ r.Status = status)
SummaryRows(person, status) ==
    SelectSeq(summary, LAMBDA r : r.Person = person /\ r.Status = status)

\* C8: the summary has exactly one row for every (Person, Status) that has
\* rows in the assignment table and no other row; Count is the number of
\* those rows and TotalAmount the sum of their amounts; the Counts add up to
\* the number of rows of the table.
C8_SummaryExact ==
    pc = "done" =>
        /\ \A j \in DOMAIN summary :
            /\ summary[j].Person \in Range(persons(n))
            /\ summary[j].Status \in TheStatuses
        /\ \A i \in 1..n : \A status \in TheStatuses :
            LET rows == PairRows(PersonNames[i], status)
                sums == SummaryRows(PersonNames[i], status)
            IN  IF rows = <<>> THEN sums = <<>>
                ELSE /\ Len(sums) = 1
                     /\ sums[1].Count = Len(rows)
                     /\ sums[1].TotalAmount =
                            SumSeq([j \in 1..Len(rows) |-> rows[j].AssignedAmount])
        /\ SumSeq([j \in 1..Len(summary) |-> summary[j].Count]) = Len(result_df)

\* C8, for tables whose amounts are all numbers
SummaryExactWhenNumeric == AllNumeric => C8_SummaryExact

InCall == pc \in {"greedy_loop", "returned"}
Count(s, x) == Cardinality({i \in DOMAIN s : s[i] = x})

C9_State ==
    InCall =>
        /\ \A i \in 1..(Len(amounts) - 1) : amounts[i] >= amounts[i + 1]
        /\ Len(amounts) = Len(arg)
        /\ \A a \in Range(arg) \cup Range(amounts) : Count(amounts, a) = Count(arg, a)
        /\ \A i \in 1..k : totals[i] = BucketTotal(i)
        /\ (pc = "returned" /\ arg = <<5000, 3500, 4200>> /\ k = 2)
                => assignments = <<(<<5000>>), <<4200, 3500>>>>

C9_Step ==
    (pc = "greedy_loop" /\ pos' = pos + 1) =>
        \E idx \in 1..k :
            /\ \A j \in 1..k : totals[idx] <= totals[j]
            /\ \A j \in 1..(idx - 1) : totals[j] > totals[idx]
            /\ assignments' = [assignments EXCEPT ![idx] = Append(@, amounts[pos])]
            /\ totals' = [totals EXCEPT ![idx] = @ + amounts[pos]]

\* C9: in a call on a list of numbers the sorted list is a non-increasing
\* rearrangement of the argument, every running total is the sum of its
\* bucket, every step appends the current amount to the lowest-numbered
\* bucket among those of minimal running total and adds it to that total, and
\* the template amounts with two buckets end as [5000] and [4200, 3500].
C9_GreedyOrder == [](C9_State) /\ [][C9_Step]_vars

C9_Witness ==
    /\ pc = "returned"
    /\ arg = <<5000, 3500, 4200>>
    /\ k = 2

PersonIndex(person) == CHOOSE i \in DOMAIN PersonNames : PersonNames[i] = person
StatusIndex(status) == CHOOSE i \in DOMAIN statuses : statuses[i] = status

RowOrder ==
    /\ \A i, j \in DOMAIN result_df :
        i < j =>
            \/ PersonIndex(result_df[i].Person) < PersonIndex(result_df[j].Person)
            \/ /\ result_df[i].Person = result_df[j].Person
               /\ StatusIndex(result_df[i].Status) <= StatusIndex(result_df[j].Status)
    /\ \A i \in 1..n : \A status \in TheStatuses :
        LET rows == PairRows(PersonNames[i], status)
        IN  [j \in 1..Len(rows) |-> rows[j].AssignedAmount]
                = status_assignments[status][i]

FirstUnused(j) ==
    LET free == {i \in DOMAIN data :
                    /\ Eq(data[i].Amount, result_df[j].AssignedAmount)
                    /\ data[i].Status = result_df[j].Status
                    /\ \A q \in 1..(j - 1) : ids[q] # data[i].ClinikkID}
    IN  IF free = {} THEN None
        ELSE data[CHOOSE i \in free : \A q \in free : i <= q].ClinikkID

\* C10: result_df lists the rows by person, within a person by status in the
\* order Active, Inactive, Affiliate, and within both in the order of the
\* bucket's list; the j-th id returned is the id of the first input record
\* with the j-th row's amount and status whose id was not returned for an
\* earlier row, or None when there is no such record; used_ids holds exactly
\* the ids returned, in the order returned.
C10_ResolutionOrder ==
    pc \in {"assign_ids", "summary", "done"} =>
        /\ RowOrder
        /\ Len(ids) <= Len(result_df)
        /\ \A j \in DOMAIN ids : ids[j] = FirstUnused(j)
        /\ used_ids = SelectSeq(ids, LAMBDA id : id # None)
        /\ Resolved => IdColumn = ids

C10_Witness ==
    /\ pc = "done"
    /\ Len(ids) = 3
    /\ ids[1] = IdNames[2]
    /\ None \in Range(ids)
    /\ Len(used_ids) = 2

====
